---- MODULE Spec2Model ----
(***************************************************************************)
(* Model of hydrogen_storage_pro_app.py: the prediction function predict,  *)
(* and the Streamlit page script that calls it once for the displayed      *)
(* result and once per sweep pressure for the two curves.                  *)
(*                                                                         *)
(* Numbers.  The program computes with IEEE doubles.  The model computes   *)
(* with exact decimal fixed-point numbers: every quantity is an integer    *)
(* count of a unit fixed per quantity (the units are listed below), held   *)
(* as an arbitrary-precision integer (Big) because TLC's integers are 32   *)
(* bits wide.  Rounding of doubles is therefore not modelled; the one      *)
(* float effect that changes the control flow, the OverflowError Python    *)
(* raises when pressure**2 leaves the double range, is modelled.           *)
(***************************************************************************)
EXTENDS Integers, Sequences, FiniteSets, TLC

(***************************************************************************)
(* Arbitrary-precision integers: sign and magnitude, the magnitude a       *)
(* little-endian sequence of limbs in 0..Radix-1 without leading zeros.    *)
(***************************************************************************)
Radix == 100 * 100

RECURSIVE MOfNat(_)
MOfNat(n) == IF n = 0 THEN <<>> ELSE <<n % Radix>> \o MOfNat(n \div Radix)

RECURSIVE MNorm(_)
MNorm(a) ==
  IF a = <<>> THEN <<>>
  ELSE IF a[Len(a)] = 0 THEN MNorm(SubSeq(a, 1, Len(a) - 1)) ELSE a

RECURSIVE MCmpAt(_, _, _)
MCmpAt(a, b, i) ==
  IF i = 0 THEN 0
  ELSE IF a[i] < b[i] THEN -1
  ELSE IF a[i] > b[i] THEN 1
  ELSE MCmpAt(a, b, i - 1)

MCmp(a, b) ==
  IF Len(a) < Len(b) THEN -1
  ELSE IF Len(a) > Len(b) THEN 1
  ELSE MCmpAt(a, b, Len(a))

RECURSIVE MAddC(_, _, _)
\* the limb s % Radix, then the sum of a, b and the carry of s
MCons(s, a, b) == <<s % Radix>> \o MAddC(a, b, s \div Radix)

MAddC(a, b, c) ==
  IF a = <<>> /\ b = <<>> THEN (IF c = 0 THEN <<>> ELSE <<c>>)
  ELSE IF a = <<>> THEN MAddC(b, a, c)
  ELSE IF b = <<>> THEN MCons(Head(a) + c, Tail(a), b)
  ELSE MCons(Head(a) + Head(b) + c, Tail(a), Tail(b))

MAdd(a, b) == MAddC(a, b, 0)

\* a - b - w for magnitudes with a >= b + w; the result may carry leading zeros
RECURSIVE MSubB(_, _, _)
MSubCons(d, a, b) == <<d % Radix>> \o MSubB(a, b, IF d < 0 THEN 1 ELSE 0)

MSubB(a, b, w) ==
  IF a = <<>> THEN <<>>
  ELSE IF b = <<>> THEN MSubCons(Head(a) - w, Tail(a), b)
  ELSE MSubCons(Head(a) - Head(b) - w, Tail(a), Tail(b))

MSub(a, b) == MNorm(MSubB(a, b, 0))

RECURSIVE MMul1(_, _, _)
MMulCons(s, a, d) == <<s % Radix>> \o MMul1(a, d, s \div Radix)

MMul1(a, d, c) ==
  IF a = <<>> THEN (IF c = 0 THEN <<>> ELSE <<c>>)
  ELSE MMulCons(Head(a) * d + c, Tail(a), d)

\* a * Radix
MShift(a) == IF a = <<>> THEN <<>> ELSE <<0>> \o a

RECURSIVE MMul(_, _)
MMul(a, b) ==
  IF a = <<>> \/ b = <<>> THEN <<>>
  ELSE IF Len(b) = 1 THEN MMul1(a, b[1], 0)
  ELSE IF Len(a) = 1 THEN MMul1(b, a[1], 0)
  ELSE IF Head(b) = 0 THEN MShift(MMul(a, Tail(b)))
  ELSE MAdd(MMul1(a, Head(b), 0), MShift(MMul(a, Tail(b))))

Big(n) ==
  IF n = 0 THEN [sg |-> 0, mg |-> <<>>]
  ELSE IF n > 0 THEN [sg |-> 1, mg |-> MOfNat(n)]
  ELSE [sg |-> -1, mg |-> MOfNat(-n)]

BZero == Big(0)

BNeg(a) == [sg |-> -a.sg, mg |-> a.mg]

\* a + b for a and b of opposite signs, c the comparison of their magnitudes
BAddOpposite(a, b, c) ==
  IF c = 0 THEN BZero
  ELSE IF c > 0 THEN [sg |-> a.sg, mg |-> MSub(a.mg, b.mg)]
  ELSE [sg |-> b.sg, mg |-> MSub(b.mg, a.mg)]

BAdd(a, b) ==
  IF a.sg = 0 THEN b
  ELSE IF b.sg = 0 THEN a
  ELSE IF a.sg = b.sg THEN [sg |-> a.sg, mg |-> MAdd(a.mg, b.mg)]
  ELSE BAddOpposite(a, b, MCmp(a.mg, b.mg))

BMul(a, b) ==
  IF a.sg = 0 \/ b.sg = 0 THEN BZero
  ELSE [sg |-> a.sg * b.sg, mg |-> MMul(a.mg, b.mg)]

\* -1, 0, 1 as a < b, a = b, a > b
BCmp(a, b) ==
  IF a.sg # b.sg THEN (IF a.sg < b.sg THEN -1 ELSE 1)
  ELSE IF a.sg = 0 THEN 0
  ELSE a.sg * MCmp(a.mg, b.mg)

BLt(a, b) == BCmp(a, b) < 0
BGt(a, b) == BCmp(a, b) > 0
BGe(a, b) == BCmp(a, b) >= 0

BSquare(a) == BMul(a, a)

(***************************************************************************)
(* Units.  A pressure is a Big count of 1/PU MPa: PU is the least unit in  *)
(* which both the slider's steps of 0.1 MPa and the sweep's steps of       *)
(* (10-1)/(100-1) = 1/11 MPa are whole.  The decimal literals of the       *)
(* source are integers over a power of ten: 0.21 is 21/StressDen, 0.0015   *)
(* is 150/DispDen, 3.5e-5 is 35/AlphaDen, 6.5 is 65/StressLimDen and 0.015 *)
(* is 15/DispLimDen.  predict returns its stress as a count of             *)
(* 1/(StressDen*PU*PU*AlphaDen) MPa and its displacement as a count of     *)
(* 1/(DispDen*PU*PU*AlphaDen) m.                                           *)
(***************************************************************************)
SliderMin == 10
SliderMax == 100
SliderDefault == 50
SliderDen == 10
DefaultDeltaT == 25
DefaultCycles == 1
LinStart == 1
LinStop == 10
Samples == 100
MmPerM == 1000

LinDen == (Samples - 1) \div (LinStop - LinStart)
PU == SliderDen * LinDen

StressDen == 100
DispDen == 100000
AlphaDen == 1000000
StressLimDen == 10
DispLimDen == 1000

StressLinDGF == 21
StressQuadDGF == 30
DispLinDGF == 150
DispQuadDGF == 10
StressLinSC == 18
StressQuadSC == 20
DispLinSC == 100
DispQuadSC == 5
alpha == 35
HighStress == 65
HighDisp == 15
ModStress == 55
ModDisp == 12

Formations == {"Depleted Gas Field", "Salt Cavern"}
Tiers == {"Low", "Moderate", "High"}

\* one unit of stress and of displacement, as counts per MPa and per metre
StressUnits == BMul(Big(StressDen * PU * PU), Big(AlphaDen))
DispUnits == BMul(BMul(Big(DispDen), Big(PU * PU)), Big(AlphaDen))

\* the thresholds of the classifier in the units of predict's results
HighStressLim == BMul(Big(HighStress * (StressDen \div StressLimDen) * PU * PU), Big(AlphaDen))
ModStressLim == BMul(Big(ModStress * (StressDen \div StressLimDen) * PU * PU), Big(AlphaDen))
HighDispLim == BMul(Big(HighDisp * (DispDen \div DispLimDen) * PU * PU), Big(AlphaDen))
ModDispLim == BMul(Big(ModDisp * (DispDen \div DispLimDen) * PU * PU), Big(AlphaDen))

(***************************************************************************)
(* pressure**2 on a Python float raises OverflowError when the result      *)
(* leaves the double range, that is when |pressure| >= 2^512 MPa.          *)
(***************************************************************************)
\* 2^512, little-endian in limbs of Radix
TwoTo512 ==
  <<4096, 608, 6490, 6433, 6994, 9465, 2811, 5388, 8537, 6050,
    8648, 8581, 31, 2769, 9034, 8166, 7429, 8018, 6976, 7354,
    300, 1764, 4372, 5614, 7723, 9337, 5923, 5820, 7936, 1274,
    5846, 9820, 249, 9574, 9709, 9425, 7929, 780, 134>>

PowLimit == [sg |-> 1, mg |-> MMul1(TwoTo512, PU, 0)]

\* a validation that rejects negative pressures instead
RejectsNegative(p) == p.sg < 0

PowOverflows(p) ==
  MCmp(p.mg, PowLimit.mg) >= 0

\* the comparisons of lines 79 and 81 made non-strict
RiskOfGe(s, d) ==
  IF BGe(s, HighStressLim) \/ BGe(d, HighDispLim) THEN "High"
  ELSE IF BGe(s, ModStressLim) \/ BGe(d, ModDispLim) THEN "Moderate"
  ELSE "Low"

\* lines 79-84: the risk tier of a computed (stress, displacement) pair
RiskOf(s, d) ==
  IF BGt(s, HighStressLim) \/ BGt(d, HighDispLim) THEN "High"
  ELSE IF BGt(s, ModStressLim) \/ BGt(d, ModDispLim) THEN "Moderate"
  ELSE "Low"

\* the coefficients of the two formations exchanged
BaseStressSwapped(p, f) ==
  IF f = "Depleted Gas Field"
  THEN BAdd(BMul(Big(StressLinSC * PU), p), BMul(Big(StressQuadSC), BSquare(p)))
  ELSE BAdd(BMul(Big(StressLinDGF * PU), p), BMul(Big(StressQuadDGF), BSquare(p)))

\* the quadratic term of the displacement subtracted
BaseDisplacementMinus(p, f) ==
  IF f = "Depleted Gas Field"
  THEN BAdd(BMul(Big(DispLinDGF * PU), p), BNeg(BMul(Big(DispQuadDGF), BSquare(p))))
  ELSE BAdd(BMul(Big(DispLinSC * PU), p), BNeg(BMul(Big(DispQuadSC), BSquare(p))))

\* lines 67-72: the base stress and displacement, counts of 1/(StressDen*PU*PU)
\* MPa and of 1/(DispDen*PU*PU) m
BaseStress(p, f) ==
  IF f = "Depleted Gas Field"
  THEN BAdd(BMul(Big(StressLinDGF * PU), p), BMul(Big(StressQuadDGF), BSquare(p)))
  ELSE BAdd(BMul(Big(StressLinSC * PU), p), BMul(Big(StressQuadSC), BSquare(p)))

BaseDisplacement(p, f) ==
  IF f = "Depleted Gas Field"
  THEN BAdd(BMul(Big(DispLinDGF * PU), p), BMul(Big(DispQuadDGF), BSquare(p)))
  ELSE BAdd(BMul(Big(DispLinSC * PU), p), BMul(Big(DispQuadSC), BSquare(p)))

\* alpha taken as 3.5e-3
ThermalStrainCoarse(dT, c) == BMul(BMul(Big(alpha * 100), Big(dT)), Big(c))

\* line 75: alpha * delta_T * cycles, a count of 1/AlphaDen
ThermalStrain(dT, c) == BMul(BMul(Big(alpha), Big(dT)), Big(c))

\* x += thermal_strain
ThermalAdjustAdditive(x, thermal_strain) == BAdd(BMul(x, Big(AlphaDen)), thermal_strain)

\* lines 76-77: x += x * thermal_strain, the result in units AlphaDen times finer
ThermalAdjust(x, thermal_strain) == BAdd(BMul(x, Big(AlphaDen)), BMul(x, thermal_strain))

\* line 86: the returned triple
Returned(s, d) ==
  [raised |-> "no", stress |-> s, displacement |-> d, risk |-> RiskOf(s, d)]

\* lines 73-86, from the base stress and displacement of lines 67-72
Adjusted(s, d, strain) == Returned(ThermalAdjust(s, strain), ThermalAdjust(d, strain))

\* lines 66-86
predict(p, f, dT, c) ==
  IF PowOverflows(p)
  THEN [raised |-> "OverflowError", stress |-> BZero, displacement |-> BZero,
        risk |-> "none"]
  ELSE Adjusted(BaseStress(p, f), BaseDisplacement(p, f), ThermalStrain(dT, c))

(***************************************************************************)
(* State.  pressure, formation and thermal_cycling are what the sidebar    *)
(* widgets return (lines 54-57); in_delta_T and in_cycles are the values   *)
(* the two number inputs hold; delta_T and cycles are the script's         *)
(* variables of lines 58-63; raised, stress, displacement and risk are the *)
(* outcome of the call on line 88; pressures, stresses and disps are the   *)
(* lists of lines 110-117.                                                 *)
(***************************************************************************)
VARIABLES pressure, formation, thermal_cycling, in_delta_T, in_cycles,
          delta_T, cycles, raised, stress, displacement, risk,
          pressures, stresses, disps

vars == <<pressure, formation, thermal_cycling, in_delta_T, in_cycles,
          delta_T, cycles, raised, stress, displacement, risk,
          pressures, stresses, disps>>

(***************************************************************************)
(* The calls of predict on their own: any numeric arguments, nominal or    *)
(* not.  The bounds pick the arguments tried.                              *)
(***************************************************************************)
MaxWholeMPa == 3
MaxSmallCycles == 1

\* 10^200 MPa
HugePressure == [sg |-> 1, mg |-> [i \in 1..51 |-> IF i = 51 THEN PU ELSE 0]]

\* whole pressures from 0 MPa up, and -4.0, -0.8, 5.0, 5.5, 10, 15 and 10^200 MPa
CallPressures ==
  {Big(PU * i) : i \in 0..MaxWholeMPa}
    \cup {Big(-4 * PU), Big(-8 * LinDen), Big(5 * PU), Big(55 * LinDen),
          Big(10 * PU), Big(15 * PU), HugePressure}

CallDeltaTs == {-650, -120, -25, 0, 25}
CallCycles == (-1..MaxSmallCycles) \cup {250}

\* line 88: stress, displacement, risk = predict(...)
Outcome(r) ==
  /\ raised = r.raised
  /\ stress = r.stress
  /\ displacement = r.displacement
  /\ risk = r.risk

OutcomeNext(r) ==
  /\ raised' = r.raised
  /\ stress' = r.stress
  /\ displacement' = r.displacement
  /\ risk' = r.risk

CallInit ==
  /\ pressure \in CallPressures
  /\ formation \in Formations
  /\ delta_T \in CallDeltaTs
  /\ cycles \in CallCycles
  /\ Outcome(predict(pressure, formation, delta_T, cycles))
  /\ thermal_cycling = FALSE
  /\ in_delta_T = DefaultDeltaT
  /\ in_cycles = DefaultCycles
  /\ pressures = <<>>
  /\ stresses = <<>>
  /\ disps = <<>>

Call(p, f, dT, c) ==
  /\ pressure' = p
  /\ formation' = f
  /\ delta_T' = dT
  /\ cycles' = c
  /\ OutcomeNext(predict(p, f, dT, c))
  /\ UNCHANGED <<thermal_cycling, in_delta_T, in_cycles, pressures, stresses, disps>>

CallNext ==
  \E p \in CallPressures, f \in Formations, dT \in CallDeltaTs, c \in CallCycles :
    Call(p, f, dT, c)

CallSpec == CallInit /\ [][CallNext]_vars

(***************************************************************************)
(* The page.  Streamlit runs the whole script again after every change of  *)
(* a widget, so each action below is one change followed by one full run   *)
(* of lines 54-117.  The bounds pick the widget values tried.              *)
(***************************************************************************)
ExtraSliderSteps == 1
MaxInputDeltaT == 0
MaxInputCycles == 1

\* slider positions in tenths of MPa (line 54): both ends, the default, and
\* the first positions above the lower end
SliderValues ==
  {SliderMin, SliderDefault, SliderMax}
    \cup {v \in SliderMin..SliderMax : v - SliderMin <= ExtraSliderSteps}

\* values typed into the two number inputs (lines 59-60), which have no
\* minimum and no maximum
InputDeltaTs == {DefaultDeltaT, -120} \cup (0..MaxInputDeltaT)
InputCycles == {DefaultCycles, 250} \cup (0..MaxInputCycles)

\* the else branch of lines 61-63 left out
EffectiveDeltaTAlways(tc, v) == v

\* lines 58-63
EffectiveDeltaT(tc, v) == IF tc THEN v ELSE 0
EffectiveCycles(tc, v) == IF tc THEN v ELSE 1

\* numpy.linspace with endpoint=False
linspaceOpen(start, stop, num) ==
  [i \in 1..num |-> Big(start * PU + ((i - 1) * (stop - start) * PU) \div num)]

\* numpy.linspace(start, stop, num), endpoint included: start + i * step for
\* i = 0..num-1 with step = (stop - start) / (num - 1), the last set to stop
linspace(start, stop, num) ==
  [i \in 1..num |->
     IF i = num /\ num > 1 THEN Big(stop * PU)
     ELSE Big(start * PU + ((i - 1) * (stop - start) * PU) \div (num - 1))]

\* the sweep calling predict(p, formation)
SweepCallDefaults(p, f, dT, c) == predict(p, f, 0, 1)

\* line 115: the sweep's call of predict
SweepCall(p, f, dT, c) == predict(p, f, dT, c)

\* lines 114-115: the results of the loop's calls, in the order of the loop
SweepResults(ps, f, dT, c) == [i \in 1..Len(ps) |-> SweepCall(ps[i], f, dT, c)]

\* lines 116-117: what the loop appends, the displacement in mm
SweepStresses(rs) == [i \in 1..Len(rs) |-> rs[i].stress]
SweepDisps(rs) == [i \in 1..Len(rs) |-> BMul(rs[i].displacement, Big(MmPerM))]

\* line 110; an exception on line 88 ends the run before it
SweepPressures(r) ==
  IF r = "no" THEN linspace(LinStart, LinStop, Samples) ELSE <<>>

\* the first run: slider at 5.0, the first formation, the checkbox unchecked
Init ==
  /\ pressure = Big(SliderDefault * LinDen)
  /\ formation = "Depleted Gas Field"
  /\ thermal_cycling = FALSE
  /\ in_delta_T = DefaultDeltaT
  /\ in_cycles = DefaultCycles
  /\ delta_T = EffectiveDeltaT(thermal_cycling, in_delta_T)
  /\ cycles = EffectiveCycles(thermal_cycling, in_cycles)
  /\ Outcome(predict(pressure, formation, delta_T, cycles))
  /\ pressures = SweepPressures(raised)
  /\ \E rs \in {SweepResults(pressures, formation, delta_T, cycles)} :
       /\ stresses = SweepStresses(rs)
       /\ disps = SweepDisps(rs)

\* one run of the script (lines 54-117) with the widgets at p, f, tc, idT, ic
Rerun(p, f, tc, idT, ic) ==
  /\ pressure' = p
  /\ formation' = f
  /\ thermal_cycling' = tc
  /\ in_delta_T' = idT
  /\ in_cycles' = ic
  /\ delta_T' = EffectiveDeltaT(tc, idT)
  /\ cycles' = EffectiveCycles(tc, ic)
  /\ OutcomeNext(predict(p, f, delta_T', cycles'))
  /\ pressures' = SweepPressures(raised')
  /\ \E rs \in {SweepResults(pressures', f, delta_T', cycles')} :
       /\ stresses' = SweepStresses(rs)
       /\ disps' = SweepDisps(rs)

MovePressure(v) ==
  Rerun(Big(v * LinDen), formation, thermal_cycling, in_delta_T, in_cycles)

SelectFormation(f) ==
  Rerun(pressure, f, thermal_cycling, in_delta_T, in_cycles)

\* the number inputs appear: with the values they last held, or with their
\* defaults when Streamlit dropped the state of the widgets it did not draw
CheckThermalCycling(keep) ==
  /\ ~thermal_cycling
  /\ Rerun(pressure, formation, TRUE,
                  IF keep THEN in_delta_T ELSE DefaultDeltaT,
                  IF keep THEN in_cycles ELSE DefaultCycles)

UncheckThermalCycling ==
  /\ thermal_cycling
  /\ Rerun(pressure, formation, FALSE, in_delta_T, in_cycles)

EnterDeltaT(v) ==
  /\ thermal_cycling
  /\ Rerun(pressure, formation, thermal_cycling, v, in_cycles)

EnterCycles(v) ==
  /\ thermal_cycling
  /\ Rerun(pressure, formation, thermal_cycling, in_delta_T, v)

Next ==
  \/ \E v \in SliderValues : MovePressure(v)
  \/ \E f \in Formations : SelectFormation(f)
  \/ \E keep \in BOOLEAN : CheckThermalCycling(keep)
  \/ UncheckThermalCycling
  \/ \E v \in InputDeltaTs : EnterDeltaT(v)
  \/ \E v \in InputCycles : EnterCycles(v)

Spec == Init /\ [][Next]_vars

(***************************************************************************)
(* Properties of predict, checked under CallSpec.  A stress s is x MPa     *)
(* when s = x * StressUnits, a displacement d is x m when                  *)
(* d = x * DispUnits; decimals are cross-multiplied.                       *)
(***************************************************************************)

\* 1 + 3.5e-5 * delta_T * cycles of the current call, in millionths
FactorMicro == 1000000 + 35 * delta_T * cycles

\* the current call's pressure lies in [1, 10] MPa
NominalPressure == BGe(pressure, Big(1 * PU)) /\ BGe(Big(10 * PU), pressure)

StressAbove(s, tenths) == BGt(BMul(s, Big(10)), BMul(Big(tenths), StressUnits))
DispAbove(d, thousandths) == BGt(BMul(d, Big(1000)), BMul(Big(thousandths), DispUnits))

ExceedsHigh == StressAbove(stress, 65) \/ DispAbove(displacement, 15)
ExceedsModerate == StressAbove(stress, 55) \/ DispAbove(displacement, 12)

\* C1: the tier returned with a computed (stress, displacement) is High iff
\* stress > 6.5 or displacement > 0.015, otherwise Moderate iff stress > 5.5 or
\* displacement > 0.012, otherwise Low; the comparisons are strict.
C1_RiskByFirstMatch ==
  raised = "no" =>
    /\ risk = "High" <=> ExceedsHigh
    /\ risk = "Moderate" <=> (~ExceedsHigh /\ ExceedsModerate)
    /\ risk = "Low" <=> (~ExceedsHigh /\ ~ExceedsModerate)

\* a call whose stress alone exceeds 6.5 while its displacement is below 0.012
C1_Witness ==
  /\ raised = "no"
  /\ StressAbove(stress, 65)
  /\ ~DispAbove(displacement, 12)
  /\ risk = "High"

\* C2: stress and displacement of predict(P, f, dT, c) are those of
\* predict(P, f, 0, 1) times (1 + 3.5e-5 * dT * c).
C2_ThermalScaling ==
  raised = "no" =>
    /\ BMul(stress, Big(1000000))
         = BMul(predict(pressure, formation, 0, 1).stress, Big(FactorMicro))
    /\ BMul(displacement, Big(1000000))
         = BMul(predict(pressure, formation, 0, 1).displacement, Big(FactorMicro))

\* a call with a thermal factor other than 1 and a non-zero stress
C2_Witness ==
  /\ raised = "no"
  /\ NominalPressure
  /\ delta_T = 25
  /\ cycles = 250
  /\ stress # predict(pressure, formation, 0, 1).stress

\* the base stress (x 100) and displacement (x 100000) of the claim's formulas
\* at the current pressure, in units of 1/(PU*PU)
ClaimedBaseStress ==
  IF formation = "Depleted Gas Field"
  THEN BAdd(BMul(Big(21 * PU), pressure), BMul(Big(30), BMul(pressure, pressure)))
  ELSE BAdd(BMul(Big(18 * PU), pressure), BMul(Big(20), BMul(pressure, pressure)))

ClaimedBaseDisp ==
  IF formation = "Depleted Gas Field"
  THEN BAdd(BMul(Big(150 * PU), pressure), BMul(Big(10), BMul(pressure, pressure)))
  ELSE BAdd(BMul(Big(100 * PU), pressure), BMul(Big(5), BMul(pressure, pressure)))

Unadjusted == raised = "no" /\ pressure.sg >= 0 /\ (delta_T = 0 \/ cycles = 0)

BaseValuesReturned ==
  /\ BMul(stress, Big(100 * PU * PU)) = BMul(ClaimedBaseStress, StressUnits)
  /\ BMul(BMul(displacement, Big(100000)), Big(PU * PU))
       = BMul(ClaimedBaseDisp, DispUnits)

AtDepleted(mpa) == formation = "Depleted Gas Field" /\ pressure = Big(mpa * PU)

\* C3 as claimed: with dT = 0 or cycles = 0 and P >= 0 predict returns the base
\* values; Depleted Gas Field at P = 5 gives stress 8.55 and High, at P = 3
\* stress 3.33, displacement 0.00555 and Low.
C3_AsClaimed ==
  Unadjusted =>
    /\ BaseValuesReturned
    /\ AtDepleted(5) =>
         BMul(stress, Big(100)) = BMul(Big(855), StressUnits) /\ risk = "High"
    /\ AtDepleted(3) =>
         /\ BMul(stress, Big(100)) = BMul(Big(333), StressUnits)
         /\ BMul(displacement, Big(100000)) = BMul(Big(555), DispUnits)
         /\ risk = "Low"

\* C3 amended: as claimed, but the displacement at P = 3 is 0.0054.
C3_BaseValues ==
  Unadjusted =>
    /\ BaseValuesReturned
    /\ AtDepleted(5) =>
         BMul(stress, Big(100)) = BMul(Big(855), StressUnits) /\ risk = "High"
    /\ AtDepleted(3) =>
         /\ BMul(stress, Big(100)) = BMul(Big(333), StressUnits)
         /\ BMul(displacement, Big(100000)) = BMul(Big(540), DispUnits)
         /\ risk = "Low"

\* Depleted Gas Field at 3 MPa with no cycles and a non-zero dT
C3_Witness ==
  /\ Unadjusted
  /\ AtDepleted(3)
  /\ delta_T = 25
  /\ cycles = 0
  /\ risk = "Low"

\* the pressures tried that lie in [1, 10] MPa
NominalPressures ==
  {p \in CallPressures : BGe(p, Big(1 * PU)) /\ BGe(Big(10 * PU), p)}

IncreasingInPressure ==
  \A p1, p2 \in NominalPressures :
    BLt(p1, p2) =>
      /\ BLt(predict(p1, formation, delta_T, cycles).stress,
             predict(p2, formation, delta_T, cycles).stress)
      /\ BLt(predict(p1, formation, delta_T, cycles).displacement,
             predict(p2, formation, delta_T, cycles).displacement)

\* C4 as claimed: for every formation and every (dT, cycles), stress and
\* displacement are strictly increasing in pressure over [1, 10].
C4_AsClaimed == IncreasingInPressure

\* C4 amended: the same for every (dT, cycles) with 1 + 3.5e-5 * dT * cycles > 0.
C4_Monotonic == FactorMicro > 0 => IncreasingInPressure

\* thermal parameters that shrink the values without reversing them
C4_Witness ==
  /\ delta_T = -25
  /\ cycles = 250
  /\ FactorMicro > 0
  /\ NominalPressure
  /\ BLt(stress, predict(Big(10 * PU), formation, delta_T, cycles).stress)

\* C5 as claimed: for a pressure in [1, 10], cycles >= 0 and any dT, stress >= 0
\* and displacement >= 0.
C5_AsClaimed ==
  (raised = "no" /\ NominalPressure /\ cycles >= 0) =>
    (stress.sg >= 0 /\ displacement.sg >= 0)

\* C5 amended: the same when moreover 1 + 3.5e-5 * dT * cycles >= 0.
C5_NonNegative ==
  (raised = "no" /\ NominalPressure /\ cycles >= 0 /\ FactorMicro >= 0) =>
    (stress.sg >= 0 /\ displacement.sg >= 0)

\* a nominal call with a negative swing that keeps the factor positive
C5_Witness ==
  /\ raised = "no"
  /\ NominalPressure
  /\ cycles = 250
  /\ delta_T = -25
  /\ stress.sg = 1
  /\ displacement.sg = 1

\* the closed forms of the returned stress and displacement of the current
\* call, in predict's units
ClosedStress == BMul(ClaimedBaseStress, Big(FactorMicro))
ClosedDisp == BMul(ClaimedBaseDisp, Big(FactorMicro))

C6_SweepShape ==
  /\ Len(pressures) = 100
  /\ pressures[1] = Big(1 * PU)
  /\ pressures[Len(pressures)] = Big(10 * PU)
  /\ \A i \in 1..(Len(pressures) - 1) : BLt(pressures[i], pressures[i + 1])
  /\ \A i \in 1..(Len(pressures) - 2) :
       BAdd(pressures[i + 1], BNeg(pressures[i]))
         = BAdd(pressures[i + 2], BNeg(pressures[i + 1]))
  /\ Len(stresses) = Len(pressures)
  /\ Len(disps) = Len(pressures)
  /\ \A i \in 1..Len(pressures) :
       \E r \in {predict(pressures[i], formation, delta_T, cycles)} :
         /\ stresses[i] = r.stress
         /\ disps[i] = BMul(r.displacement, Big(1000))

\* a sweep made for the second formation under thermal cycling
C6_Witness ==
  /\ thermal_cycling
  /\ formation = "Salt Cavern"
  /\ cycles = 250
  /\ Len(pressures) = 100
  /\ Len(stresses) = 100

\* the dT and the cycle count the current inputs stand for
CurrentDeltaT == IF thermal_cycling THEN in_delta_T ELSE 0
CurrentCycles == IF thermal_cycling THEN in_cycles ELSE 1

\* C9: after any sequence of input changes the displayed stress, displacement
\* and tier are predict of the current inputs, and every curve point at sweep
\* pressure p holds the stress and 1000 times the displacement of predict at p
\* with the same formation, dT and cycles.
C9_NeverStale ==
  /\ \E r \in {predict(pressure, formation, CurrentDeltaT, CurrentCycles)} :
       /\ raised = r.raised
       /\ stress = r.stress
       /\ displacement = r.displacement
       /\ risk = r.risk
  /\ DOMAIN stresses = DOMAIN pressures
  /\ DOMAIN disps = DOMAIN pressures
  /\ \A i \in DOMAIN pressures :
       \E r \in {predict(pressures[i], formation, CurrentDeltaT, CurrentCycles)} :
         /\ stresses[i] = r.stress
         /\ disps[i] = BMul(r.displacement, Big(1000))

\* every input has been changed from its default
C9_Witness ==
  /\ pressure # Big(SliderDefault * LinDen)
  /\ formation = "Salt Cavern"
  /\ thermal_cycling
  /\ in_delta_T = -120
  /\ in_cycles = 250
  /\ Len(stresses) = 100
  /\ stress.sg = -1

\* C10: while the checkbox is unchecked the run uses dT = 0 and cycles = 1
\* whatever the number inputs held, so the displayed values and every curve
\* point are the base values of the selected formation.
C10_UncheckedIsBase ==
  ~thermal_cycling =>
    /\ delta_T = 0
    /\ cycles = 1
    /\ stress = BMul(BaseStress(pressure, formation), Big(1000000))
    /\ displacement = BMul(BaseDisplacement(pressure, formation), Big(1000000))
    /\ \A i \in DOMAIN pressures :
         /\ stresses[i] = BMul(BaseStress(pressures[i], formation), Big(1000000))
         /\ disps[i] = BMul(BMul(BaseDisplacement(pressures[i], formation),
                                 Big(1000000)), Big(1000))

\* unchecked after a dT and a cycle count were entered
C10_Witness ==
  /\ ~thermal_cycling
  /\ in_delta_T = -120
  /\ in_cycles = 250
  /\ Len(stresses) = 100

====
